---- MODULE Spec2Model ----
(***************************************************************************)
(* Model of rust-lib/flowy-sys/src/stream.rs: the CommandStream dispatch   *)
(* loop, its unbounded submission channel, and the per-envelope            *)
(* CommandStreamService task (take request, route, build, invoke,          *)
(* callback or log).                                                       *)
(***************************************************************************)
EXTENDS Integers, Sequences, FiniteSets, TLC

\* ---------------------------------------------------------------- bounds
MaxEnvelopes == 2   \* envelopes (StreamData values) submitted in a run
MaxClones == 1      \* live clones of the send handle obtained through tx()

\* ------------------------------------------------------------ value sets
Events == {"a", "b"}                 \* event kinds a request can carry
Modules == {"m1", "m2"}              \* Module handles a table can hold

\* Option<T>: None is the empty tuple, Some(x) the one-element tuple.
None == <<>>
Some(x) == <<x>>
IsSome(o) == o # None
Unwrap(o) == o[1]

\* The routing tables (ModuleServiceMap values) an embedder attaches: maps
\* from event kind to Module; "b" is unregistered in the second.
MapA == [e \in {"a", "b"} |-> IF e = "a" THEN "m1" ELSE "m2"]
MapB == [e \in {"a"} |-> "m2"]
Maps == {MapA, MapB}

\* What the external Module / Handler Instance does with one request:
\* fut.await fails or never completes, service_fut.await fails or never
\* completes, or both succeed.
Behaviours == {"ok", "build_err", "build_hang", "call_err", "call_hang"}
Unknown == "unknown"

EnvIds == 1..MaxEnvelopes

\* ----------------------------------------------------------------- state
VARIABLES
  module_map,    \* CommandStream.module_map : Option<ModuleServiceMap>
  loop,          \* the CommandStream future: "created" (never polled),
                 \* "running" (polled, Pending), "terminated" (Ready(())),
                 \* "panicked" (poll unwound; the stream and its receiver dropped)
  tx_clones,     \* live UnboundedSender clones handed out by tx()
  envs,          \* the StreamData values constructed so far, by envelope id
  behaviour,     \* what the external Module and Handler Instance do for each
                 \* envelope's request, "unknown" until the Module is asked
  queue,         \* envelope ids in the unbounded channel, oldest first
  tasks,         \* the spawn_local task of each envelope
  spawn_log,     \* envelope ids in the order their tasks were spawned
  callback_log,  \* invocations of (data.callback)(data.config, resp), in order
  error_log,     \* log::error! records, in order
  dropped,       \* envelopes destroyed without ever reaching a task
  send_errors    \* envelopes whose send returned Err(SendError) to its producer

vars == <<module_map, loop, tx_clones, envs, behaviour, queue, tasks,
          spawn_log, callback_log, error_log, dropped, send_errors>>

\* An EventRequest: event kind, request id, payload.
Request(i, e) == [event |-> e, id |-> i, payload |-> 200 + i]

\* StreamData::new(config, request, callback): the callback is identified
\* with the envelope it belongs to.
StreamDataNew(config, request, cb) ==
  [config |-> config, request |-> request, callback |-> cb]

\* The task of an envelope that has not been received yet.
NoTask ==
  [pc |-> "none", map |-> None, request |-> None, module |-> None,
   takes |-> 0, took_none |-> FALSE,
   builds |-> <<>>, invokes |-> <<>>, result |-> "none"]

\* The states in which the future may still be polled.
Alive == {"created", "running"}

\* The CommandStream value (with its data_tx and data_rx) exists until a
\* panic in poll unwinds through it.
StreamExists == loop # "panicked"

\* Live send handles: the stream's own data_tx plus the clones from tx().
Senders == (IF StreamExists THEN 1 ELSE 0) + tx_clones

\* poll_recv yields None only when the queue is empty and no sender is left.
Closed == Senders = 0

Init ==
  /\ module_map = None
  /\ loop = "created"
  /\ tx_clones = 0
  /\ envs = <<>>
  /\ behaviour = [i \in EnvIds |-> Unknown]
  /\ queue = <<>>
  /\ tasks = [i \in EnvIds |-> NoTask]
  /\ spawn_log = <<>>
  /\ callback_log = <<>>
  /\ error_log = <<>>
  /\ dropped = {}
  /\ send_errors = {}

\* ------------------------------------------------------- producer side
\* A channel that hands out the newest value first.
Enqueue_Front(q, i) == <<i>> \o q

\* UnboundedSender::send on a live channel: the value joins the queue's tail.
Enqueue(q, i) == Append(q, i)

\* The request a producer puts in envelope i: None, or Some request of an
\* event kind.
RequestChoices(i) == {None} \cup {Some(Request(i, e)) : e \in Events}

\* CommandStream::send(&self, data): let _ = self.data_tx.send(data).
Send ==
  /\ StreamExists
  /\ Len(envs) < MaxEnvelopes
  /\ \E r \in RequestChoices(Len(envs) + 1) :
       LET i == Len(envs) + 1 IN
       /\ envs' = Append(envs, StreamDataNew(100 + i, r, i))
       /\ queue' = Enqueue(queue, i)
  /\ UNCHANGED <<module_map, loop, tx_clones, behaviour, tasks, spawn_log,
                 callback_log, error_log, dropped, send_errors>>

\* CommandStream::tx(&self): one more clone of the send handle.
Tx ==
  /\ StreamExists
  /\ tx_clones < MaxClones
  /\ tx_clones' = tx_clones + 1
  /\ UNCHANGED <<module_map, loop, envs, behaviour, queue, tasks,
                 spawn_log, callback_log, error_log, dropped, send_errors>>

\* A producer drops its clone of the send handle.
DropTx ==
  /\ tx_clones > 0
  /\ tx_clones' = tx_clones - 1
  /\ UNCHANGED <<module_map, loop, envs, behaviour, queue, tasks,
                 spawn_log, callback_log, error_log, dropped, send_errors>>

\* UnboundedSender::send: Ok(()) while the receiver lives, otherwise
\* Err(SendError(value)) with the value handed back to the caller.
SendResult(receiver_alive) == IF receiver_alive THEN "Ok" ELSE "Err"

\* A producer sends through its clone and is handed the Result: queued while
\* the receiver lives, otherwise the value comes back in the SendError.
TxSend ==
  /\ tx_clones > 0
  /\ Len(envs) < MaxEnvelopes
  /\ \E r \in RequestChoices(Len(envs) + 1) :
       LET i == Len(envs) + 1 IN
       /\ envs' = Append(envs, StreamDataNew(100 + i, r, i))
       /\ IF SendResult(StreamExists) = "Ok"
            THEN /\ queue' = Enqueue(queue, i)
                 /\ UNCHANGED <<dropped, send_errors>>
            ELSE /\ queue' = queue
                 /\ dropped' = dropped \cup {i}
                 /\ send_errors' = send_errors \cup {i}
  /\ UNCHANGED <<module_map, loop, tx_clones, behaviour, tasks, spawn_log,
                 callback_log, error_log>>

\* CommandStream::module_service_map(&mut self, map): self.module_map = Some(map).
ModuleServiceMap ==
  /\ StreamExists
  /\ \E m \in Maps : module_map' = Some(m)
  /\ UNCHANGED <<loop, tx_clones, envs, behaviour, queue, tasks, spawn_log,
                 callback_log, error_log, dropped, send_errors>>

\* ------------------------------------------------------- dispatch loop
\* A receive loop that keeps only the oldest envelope of a burst.
Received_HeadOnly(q) == IF q = <<>> THEN q ELSE <<Head(q)>>

\* A receive loop that sees the oldest envelope of a burst twice.
Received_HeadTwice(q) == IF q = <<>> THEN q ELSE <<Head(q)>> \o q

\* The envelopes one call of poll receives: its loop takes every queued
\* envelope, oldest first, until poll_recv is Pending or yields None.
Received(q) == q

\* new_service(()): self.module_map.as_ref().unwrap().clone(), boxed into a
\* CommandStreamService and moved, with the envelope, into a spawn_local task.
SpawnTask(map) == [NoTask EXCEPT !.pc = "spawned", !.map = Some(map)]

\* A loop that receives the next envelope only once every spawned task has
\* finished.
CanPoll_AfterTasks ==
  /\ loop \in {"created", "running"}
  /\ \A i \in EnvIds : tasks[i].pc \notin {"spawned", "building", "calling"}

\* The stream can be polled as long as it has not completed or unwound; the
\* tasks it spawned are detached and play no part in it.
CanPoll == loop \in Alive

\* CommandStream::poll. With envelopes queued and no table attached the
\* unwrap in new_service panics: the stream, its receiver and everything
\* queued are destroyed as the panic unwinds.
Poll ==
  /\ CanPoll
  /\ IF queue # <<>> /\ module_map = None
       THEN /\ loop' = "panicked"
            /\ dropped' = dropped \cup {queue[k] : k \in 1..Len(queue)}
            /\ UNCHANGED <<tasks, spawn_log>>
       ELSE LET got == Received(queue) IN
            /\ tasks' = [i \in EnvIds |->
                           IF \E k \in 1..Len(got) : got[k] = i
                             THEN SpawnTask(Unwrap(module_map))
                             ELSE tasks[i]]
            /\ spawn_log' = spawn_log \o got
            /\ loop' = IF Closed THEN "terminated" ELSE "running"
            /\ dropped' = dropped
  /\ queue' = <<>>
  /\ UNCHANGED <<module_map, tx_clones, envs, behaviour,
                 callback_log, error_log, send_errors>>

\* ------------------------------------------------------- dispatch task
\* Lookup with a fallback: an unregistered kind is routed to some Module.
Lookup_Fallback(map, request) ==
  IF request.event \in DOMAIN map
    THEN Some(map[request.event])
    ELSE Some(map[CHOOSE e \in DOMAIN map : TRUE])

\* Lookup under the wrong key: another registered kind's Module is returned.
Lookup_OtherKey(map, request) ==
  IF request.event \in DOMAIN map
    THEN IF \E e \in DOMAIN map : e # request.event
           THEN Some(map[CHOOSE e \in DOMAIN map : e # request.event])
           ELSE Some(map[request.event])
    ELSE None

\* module_map.get(request.get_event())
Lookup(map, request) ==
  IF request.event \in DOMAIN map THEN Some(map[request.event]) ELSE None

\* The Module configured with the request's payload instead of its id.
BuildConfig_Payload(request) == request.payload

\* let config = request.get_id().to_owned()
BuildConfig(request) == request.id

\* What a Handler Instance built by module m answers to a request.
HandlerCall(m, request) ==
  [module |-> m, id |-> request.id, payload |-> request.payload]

Ok(v) == [ok |-> TRUE, val |-> Some(v), err |-> "none"]
Err(e) == [ok |-> FALSE, val |-> None, err |-> e]

\* The callback invoked on both arms of the match.
OnResult_Always(res) == "callback"

\* match result().await { Ok(resp) => callback, Err(e) => log::error! }
OnResult(res) == IF res.ok THEN "callback" ELSE "log"

\* A failed dispatch unwinding into the loop.
AfterCall_Propagate(l, res) == IF res.ok THEN l ELSE "panicked"

\* let _ = service.call(ctx).await, inside the spawned task: the outcome of
\* a dispatch never reaches the loop.
AfterCall(l, res) == l

\* Tasks awaited one after the other, in spawn order, instead of spawned.
Resumable_Serial(i) ==
  /\ tasks[i].pc \in {"spawned", "building", "calling"}
  /\ \A k \in 1..Len(spawn_log) :
       tasks[spawn_log[k]].pc \in {"done", "panicked"}
         \/ (\E n \in 1..k : spawn_log[n] = i)

\* A spawn_local task is polled whenever the future it awaits is ready,
\* whatever the other tasks are doing.
Resumable(i) == tasks[i].pc \in {"spawned", "building", "calling"}

\* The callback's arguments read from a slot shared by all envelopes (the
\* latest envelope constructed) instead of the task's own envelope.
CallbackArgs_SharedSlot(d, res) ==
  [callback |-> d.callback, config |-> envs[Len(envs)].config, resp |-> res.val]

\* (data.callback)(data.config, resp): the task's own envelope supplies the
\* callback and the context, the handler's answer the response.
CallbackArgs(d, res) ==
  [callback |-> d.callback, config |-> d.config, resp |-> res.val]

\* The end of the async block of CommandStreamService::call, given the
\* result of the routing closure.
Complete(i, t, res) ==
  LET d == envs[i] IN
  /\ tasks' = [tasks EXCEPT ![i] =
                 [t EXCEPT !.pc = "done",
                           !.result = IF res.ok THEN "Ok" ELSE "Err"]]
  /\ callback_log' =
       IF OnResult(res) = "callback"
         THEN Append(callback_log, CallbackArgs(d, res))
         ELSE callback_log
  /\ error_log' =
       IF OnResult(res) = "log"
         THEN Append(error_log, [env |-> i, error |-> res.err])
         ELSE error_log
  /\ loop' = AfterCall(loop, res)

\* First poll of the task: factory.await, service.call(ctx), then
\* data.request.take().unwrap(), the table lookup and module.new_service(config).
TaskStart(i) ==
  /\ tasks[i].pc = "spawned"
  /\ Resumable(i)
  /\ LET taken == envs[i].request
         t == [tasks[i] EXCEPT !.takes = @ + 1] IN
     /\ envs' = [envs EXCEPT ![i].request = None]
     /\ IF taken = None
          THEN /\ tasks' = [tasks EXCEPT ![i] =
                              [t EXCEPT !.pc = "panicked", !.took_none = TRUE]]
               /\ UNCHANGED <<loop, behaviour, callback_log, error_log>>
          ELSE LET request == Unwrap(taken)
                   found == Lookup(Unwrap(t.map), request)
                   t1 == [t EXCEPT !.request = taken, !.module = found] IN
               IF found = None
                 THEN Complete(i, t1, Err("unroutable")) /\ UNCHANGED behaviour
                 ELSE /\ tasks' = [tasks EXCEPT ![i] =
                                     [t1 EXCEPT
                                        !.pc = "building",
                                        !.builds = Append(@, [module |-> Unwrap(found),
                                                              config |-> BuildConfig(request)])]]
                      /\ \E b \in Behaviours :
                           behaviour' = [behaviour EXCEPT ![i] = b]
                      /\ UNCHANGED <<loop, callback_log, error_log>>
  /\ UNCHANGED <<module_map, tx_clones, queue, spawn_log, dropped, send_errors>>

\* fut.await? resolves: on Ok the Handler Instance is invoked on the request.
BuildDone(i) ==
  /\ tasks[i].pc = "building"
  /\ Resumable(i)
  /\ behaviour[i] # "build_hang"
  /\ LET t == tasks[i] IN
     IF behaviour[i] = "build_err"
       THEN Complete(i, t, Err("construction"))
       ELSE /\ tasks' = [tasks EXCEPT ![i] =
                           [t EXCEPT !.pc = "calling",
                                     !.invokes = Append(@, [module |-> Unwrap(t.module),
                                                            request |-> Unwrap(t.request)])]]
            /\ UNCHANGED <<loop, callback_log, error_log>>
  /\ UNCHANGED <<module_map, tx_clones, envs, behaviour, queue,
                 spawn_log, dropped, send_errors>>

\* service_fut.await resolves, then the match on the result runs.
CallDone(i) ==
  /\ tasks[i].pc = "calling"
  /\ Resumable(i)
  /\ behaviour[i] # "call_hang"
  /\ LET t == tasks[i] IN
     IF behaviour[i] = "call_err"
       THEN Complete(i, t, Err("invocation"))
       ELSE Complete(i, t, Ok(HandlerCall(Unwrap(t.module), Unwrap(t.request))))
  /\ UNCHANGED <<module_map, tx_clones, envs, behaviour, queue,
                 spawn_log, dropped, send_errors>>

\* --------------------------------------------------------- specification
Next ==
  \/ Send
  \/ Tx
  \/ DropTx
  \/ TxSend
  \/ ModuleServiceMap
  \/ Poll
  \/ \E i \in EnvIds : TaskStart(i)
  \/ \E i \in EnvIds : BuildDone(i)
  \/ \E i \in EnvIds : CallDone(i)

Spec == Init /\ [][Next]_vars

\* The runtime polls the stream when its channel wakes it and polls every
\* spawned task whose awaited future is ready.
TaskStep(i) == TaskStart(i) \/ BuildDone(i) \/ CallDone(i)

Fairness ==
  /\ WF_vars(Poll)
  /\ \A i \in EnvIds : WF_vars(TaskStep(i))

\* The run the registration contract prescribes: the table is attached
\* before the stream is first polled, and not replaced afterwards.
AttachBeforeStart == loop = "created" /\ ModuleServiceMap

FairNext ==
  \/ Send
  \/ Tx
  \/ DropTx
  \/ TxSend
  \/ AttachBeforeStart
  \/ Poll
  \/ \E i \in EnvIds : TaskStart(i)
  \/ \E i \in EnvIds : BuildDone(i)
  \/ \E i \in EnvIds : CallDone(i)

FairSpec == Init /\ [][FairNext]_vars /\ Fairness

\* ------------------------------------------------------------ observers
\* How often envelope i's callback has been invoked.
CallbackCount(i) ==
  Cardinality({k \in 1..Len(callback_log) : callback_log[k].callback = i})

\* The failures reported for envelope i, oldest first.
ErrorsOf(i) ==
  SelectSeq(error_log, LAMBDA r : r.env = i)

\* The request of envelope i: in the task once taken, in the envelope before.
RequestOf(i) ==
  IF IsSome(tasks[i].request) THEN tasks[i].request ELSE envs[i].request

HasTask(i) == tasks[i].pc # "none"

\* Envelope i's task holds a table in which its event kind is (not) registered.
Registered(i) ==
  /\ HasTask(i)
  /\ IsSome(RequestOf(i))
  /\ Unwrap(RequestOf(i)).event \in DOMAIN Unwrap(tasks[i].map)

Unroutable(i) ==
  /\ HasTask(i)
  /\ IsSome(RequestOf(i))
  /\ Unwrap(RequestOf(i)).event \notin DOMAIN Unwrap(tasks[i].map)

\* ----------------------------------------------------------------- C1
\* C1: each envelope's callback fires at most once; a task that has not
\* finished has not fired it; and for a finished task it fired exactly once
\* if and only if the lookup found a Module and the Module's construction
\* and the Handler Instance's invocation both succeeded.
C1_CallbackIffSuccess ==
  \A i \in EnvIds :
    /\ CallbackCount(i) <= 1
    /\ tasks[i].pc # "done" => CallbackCount(i) = 0
    /\ tasks[i].pc = "done" =>
         (CallbackCount(i) = 1 <=>
            (IsSome(tasks[i].module) /\ behaviour[i] = "ok"))

\* Two finished tasks, one that delivered and one that did not.
C1_Witness ==
  \E i, j \in EnvIds :
    /\ tasks[i].pc = "done" /\ CallbackCount(i) = 1
    /\ tasks[j].pc = "done" /\ CallbackCount(j) = 0

\* ----------------------------------------------------------------- C2
\* C2: a task whose request's event kind is absent from the table it holds
\* never asks a Module to build, never invokes a handler, never fires the
\* callback, and has reported exactly one failure, the unroutable one, when
\* it is finished (and none before).
C2_UnroutableReportedOnce ==
  \A i \in EnvIds :
    Unroutable(i) =>
      /\ tasks[i].pc \in {"spawned", "done"}
      /\ tasks[i].builds = <<>>
      /\ tasks[i].invokes = <<>>
      /\ CallbackCount(i) = 0
      /\ tasks[i].pc = "spawned" => ErrorsOf(i) = <<>>
      /\ tasks[i].pc = "done" =>
           ErrorsOf(i) = <<[env |-> i, error |-> "unroutable"]>>

\* A finished task whose event kind was not in its table.
C2_Witness ==
  \E i \in EnvIds : Unroutable(i) /\ tasks[i].pc = "done"

\* ----------------------------------------------------------------- C3
\* C3: a task whose request's event kind is in the table it holds asks
\* exactly the Module registered for that kind to build, once it has
\* started, and invokes only a handler of that Module.
C3_RoutedToRegisteredModule ==
  \A i \in EnvIds :
    Registered(i) =>
      LET m == Unwrap(tasks[i].map)[Unwrap(RequestOf(i)).event] IN
      /\ \A k \in 1..Len(tasks[i].builds) : tasks[i].builds[k].module = m
      /\ \A k \in 1..Len(tasks[i].invokes) : tasks[i].invokes[k].module = m
      /\ tasks[i].pc \in {"building", "calling", "done"} =>
           Len(tasks[i].builds) = 1

\* Two tasks in flight at once, built from different Modules.
C3_Witness ==
  \E i, j \in EnvIds :
    /\ tasks[i].pc \in {"building", "calling"}
    /\ tasks[j].pc \in {"building", "calling"}
    /\ tasks[i].builds[1].module # tasks[j].builds[1].module

\* ----------------------------------------------------------------- C4
\* C4: if from some point on no producer holds a send handle and the
\* channel is empty, the dispatch loop (driven with a table attached)
\* eventually terminates.
C4_TerminatesWhenProducersGone ==
  <>[](loop \in Alive /\ IsSome(module_map) /\ tx_clones = 0 /\ queue = <<>>)
    => <>(loop = "terminated")

\* ----------------------------------------------------------------- C5
\* C5: a loop driven with no table attached is rejected when it is started
\* (it is never left running without a table), and a missing table is never
\* first discovered after an envelope has been received.
C5_MissingTableRejectedAtStart ==
  /\ loop = "running" => IsSome(module_map)
  /\ loop = "panicked" => dropped = {}

\* ----------------------------------------------------------------- C6
\* C6: every envelope's request is taken exactly once by its task, and the
\* task never finds it empty.
C6_RequestTakenOnceNeverEmpty ==
  \A i \in EnvIds :
    tasks[i].pc \notin {"none", "spawned"} =>
      tasks[i].takes = 1 /\ ~tasks[i].took_none

\* ----------------------------------------------------------------- C7
\* A task that waits on a construction or an invocation that never completes.
Hung(j) ==
  \/ tasks[j].pc = "building" /\ behaviour[j] = "build_hang"
  \/ tasks[j].pc = "calling" /\ behaviour[j] = "call_hang"

\* A task that ended without delivering.
Failed(j) ==
  \/ tasks[j].pc = "panicked"
  \/ tasks[j].pc = "done" /\ tasks[j].result = "Err"

InFlight(i) == tasks[i].pc \in {"spawned", "building", "calling"}

\* Why envelope i cannot be expected to deliver: it carried no request, its
\* kind was not registered in its task's table, or its handler's
\* construction or invocation fails or never completes.
Excused(i) ==
  /\ HasTask(i)
  /\ \/ tasks[i].took_none
     \/ Unroutable(i)
     \/ behaviour[i] \in Behaviours \ {"ok"}

\* C7: under fair scheduling, a task in flight while another task has
\* failed or hangs for ever still delivers its callback, unless its own
\* lookup, construction or invocation does not succeed.
C7_IsolationFromFailedOrHung ==
  \A i \in EnvIds :
    (InFlight(i) /\ \E j \in EnvIds \ {i} : Hung(j) \/ Failed(j))
      ~> (CallbackCount(i) = 1 \/ Excused(i))

\* A task spawned after a task that hangs has delivered, the other still hung.
C7_Witness ==
  \E i, j \in EnvIds :
    /\ Hung(j)
    /\ \E a, b \in 1..Len(spawn_log) :
         a < b /\ spawn_log[a] = j /\ spawn_log[b] = i
    /\ tasks[i].pc = "done" /\ CallbackCount(i) = 1

\* ----------------------------------------------------------------- C8
InQueue(i) == \E k \in 1..Len(queue) : queue[k] = i

\* C8: with a table attached and the loop and tasks scheduled fairly, every
\* envelope queued while the loop is alive has its callback delivered,
\* unless its kind is unregistered or its handler does not succeed.
C8_EventualDelivery ==
  \A i \in EnvIds :
    (InQueue(i) /\ loop \in Alive /\ IsSome(module_map))
      ~> (CallbackCount(i) = 1 \/ Excused(i))

\* Every envelope of the run was received in one burst and has delivered.
C8_Witness ==
  /\ Len(spawn_log) = MaxEnvelopes
  /\ \A i \in EnvIds : CallbackCount(i) = 1
  /\ \A i, j \in EnvIds : tasks[i].map = tasks[j].map

\* ----------------------------------------------------------------- C9
\* The future task i awaits is ready, so the task can take its next step.
Ready(i) ==
  \/ tasks[i].pc = "spawned"
  \/ tasks[i].pc = "building" /\ behaviour[i] # "build_hang"
  \/ tasks[i].pc = "calling" /\ behaviour[i] # "call_hang"

\* C9: of two envelopes in flight at once, submitted in either order, each
\* one's task can take its next step (up to and including its callback)
\* whenever its own awaited future is ready, so either callback can be the
\* first to fire: delivery is not tied to submission order.
C9_EitherOrderPossible ==
  \A i, j \in EnvIds :
    (i < j /\ InFlight(i) /\ InFlight(j)) =>
      /\ Ready(i) => ENABLED TaskStep(i)
      /\ Ready(j) => ENABLED TaskStep(j)

\* The later envelope's callback fired first.
C9_Witness ==
  /\ Len(callback_log) = 2
  /\ callback_log[1].callback > callback_log[2].callback
  /\ spawn_log[1] < spawn_log[2]

\* ----------------------------------------------------------------- C10
\* C10: a step in which a task ends in failure changes nothing of the loop,
\* the channel, the table, the callbacks delivered or any other task; and
\* once some task has failed, the loop stays running (leaving that state
\* only by terminating on a closed channel), can still be polled, and a
\* poll spawns a task for every envelope queued.
C10_FailureContained ==
  [][ /\ \A i \in EnvIds :
           (InFlight(i) /\ Failed(i)') =>
             /\ loop' = loop
             /\ queue' = queue
             /\ module_map' = module_map
             /\ callback_log' = callback_log
             /\ \A j \in EnvIds \ {i} :
                  tasks'[j] = tasks[j] /\ behaviour'[j] = behaviour[j]
      /\ ((\E i \in EnvIds : Failed(i)) /\ loop = "running") =>
           /\ loop' = "running" \/ (loop' = "terminated" /\ Closed)
           /\ ENABLED Poll
           /\ (queue # <<>> /\ queue' = <<>>) =>
                \A k \in 1..Len(queue) : tasks'[queue[k]].pc = "spawned"
    ]_vars

\* A task has failed, the loop is running and a later envelope is queued.
C10_Witness ==
  \E i, j \in EnvIds :
    /\ tasks[i].pc = "done" /\ tasks[i].result = "Err"
    /\ i < j /\ InQueue(j)
    /\ loop = "running"

\* ----------------------------------------------------------------- C11
\* C11: every callback invocation carries the context its own envelope was
\* constructed with and the response of the handler, built from the Module
\* its task routed to, invoked on that same envelope's request.
C11_CallbackGetsOwnContextAndResponse ==
  \A k \in 1..Len(callback_log) :
    LET r == callback_log[k]
        i == r.callback IN
    /\ i \in EnvIds
    /\ r.config = 100 + i
    /\ Len(tasks[i].invokes) = 1
    /\ tasks[i].invokes[1].request.id = i
    /\ r.resp = Some([module |-> tasks[i].invokes[1].module,
                      id |-> i,
                      payload |-> 200 + i])

\* A later envelope's callback has fired while an earlier envelope's task is
\* still waiting for its handler.
C11_Witness ==
  \E i, j \in EnvIds :
    /\ i < j
    /\ tasks[i].pc = "calling"
    /\ tasks[j].pc = "done" /\ CallbackCount(j) = 1

\* ----------------------------------------------------------------- C12
\* C12: no send ever hands an error to its producer, and an envelope that
\* was destroyed instead of dispatched never has its callback fired nor a
\* failure logged.
C12_SendNeverReportsError ==
  /\ send_errors = {}
  /\ \A i \in dropped : CallbackCount(i) = 0 /\ ErrorsOf(i) = <<>>

\* ----------------------------------------------------------------- C13
\* C13: all tasks, whenever they were spawned, resolve their event kind
\* against one and the same table.
C13_OneTableForAllTasks ==
  \A i, j \in EnvIds :
    (HasTask(i) /\ HasTask(j)) => tasks[i].map = tasks[j].map

\* ----------------------------------------------------------------- C14
\* C14: in every task each step presupposes the ones before it (take, then
\* lookup, then one build configured with the request's own id, then one
\* invocation, then the callback), and a failed construction is followed by
\* neither an invocation nor the callback.
C14_StepsInOrder ==
  \A i \in EnvIds :
    LET t == tasks[i] IN
    /\ t.takes <= 1
    /\ Len(t.builds) <= 1
    /\ Len(t.invokes) <= 1
    /\ IsSome(t.module) => t.takes = 1 /\ IsSome(t.request)
    /\ t.builds # <<>> =>
         /\ IsSome(t.module)
         /\ t.builds[1].module = Unwrap(t.module)
         /\ t.builds[1].config = i
         /\ Unwrap(t.request).id = i
    /\ t.invokes # <<>> =>
         /\ t.builds # <<>>
         /\ behaviour[i] \notin {"build_err", "build_hang"}
         /\ t.invokes[1].module = t.builds[1].module
         /\ t.invokes[1].request = Unwrap(t.request)
    /\ CallbackCount(i) > 0 => t.invokes # <<>> /\ behaviour[i] = "ok"
    /\ behaviour[i] = "build_err" =>
         t.invokes = <<>> /\ CallbackCount(i) = 0

\* A finished task whose Module failed to construct the handler.
C14_Witness ==
  \E i \in EnvIds :
    /\ tasks[i].pc = "done"
    /\ behaviour[i] = "build_err"
    /\ Len(tasks[i].builds) = 1
    /\ ErrorsOf(i) = <<[env |-> i, error |-> "construction"]>>

C16_ExactlyOneOutcome ==
  \A i \in EnvIds :
    tasks[i].pc \in {"done", "panicked"} =>
      \/ CallbackCount(i) = 1 /\ ErrorsOf(i) = <<>>
      \/ CallbackCount(i) = 0 /\ Len(ErrorsOf(i)) = 1

\* ----------------------------------------------------------------- C17
\* How often envelope i occurs in a sequence of envelope ids.
Occurrences(q, i) == Cardinality({k \in 1..Len(q) : q[k] = i})

\* C17: every envelope submitted is in exactly one place, once: queued,
\* spawned as a task, or destroyed; it has a task exactly if it was received;
\* while a table is attached none is destroyed, so each is queued or has its
\* one task; and a terminated loop has left nothing queued on a closed
\* channel.
C17_ReceivedExactlyOnce ==
  /\ \A i \in 1..Len(envs) :
       /\ Occurrences(queue, i) + Occurrences(spawn_log, i)
            + (IF i \in dropped THEN 1 ELSE 0) = 1
       /\ HasTask(i) <=> Occurrences(spawn_log, i) = 1
       /\ IsSome(module_map) => i \notin dropped
  /\ \A i \in EnvIds \ (1..Len(envs)) :
       ~HasTask(i) /\ Occurrences(queue, i) + Occurrences(spawn_log, i) = 0
  /\ loop = "terminated" => (queue = <<>> /\ Closed)

\* A burst of envelopes queued together has just been received: each has
\* its task, not yet started, and nothing is left queued.
C17_Witness ==
  /\ Len(envs) = MaxEnvelopes
  /\ queue = <<>>
  /\ \A i \in EnvIds : tasks[i].pc = "spawned"

\* ----------------------------------------------------------------- C18
\* C18: envelope ids follow the order of enqueueing, and tasks are spawned
\* in that order: the spawn order is increasing, and everything spawned was
\* enqueued before everything still queued.
C18_SpawnOrderIsFifo ==
  /\ \A a, b \in 1..Len(spawn_log) : a < b => spawn_log[a] < spawn_log[b]
  /\ \A a, b \in 1..Len(queue) : a < b => queue[a] < queue[b]
  /\ \A a \in 1..Len(spawn_log), b \in 1..Len(queue) : spawn_log[a] < queue[b]

\* Two tasks spawned by different polls, each with the table attached at its
\* own poll.
C18_Witness ==
  /\ Len(spawn_log) >= 2
  /\ tasks[spawn_log[1]].map # tasks[spawn_log[2]].map
====
